---- MODULE Spec2Model ----
(***************************************************************************)
(* Task Manager API (src/app_with_docs.py): user registration and login,   *)
(* JWT-guarded CRUD on per-user task rows, as a state machine.             *)
(*                                                                         *)
(* State: the two tables (users, tasks), the wall clock, the bag of        *)
(* register requests that have passed their existence checks but have not  *)
(* yet committed (SpecConc only), and a record of the last request that    *)
(* changed a table.                                                        *)
(* Access tokens are stateless: the server keeps none, so the tokens a     *)
(* client may present are derived from the user table and the clock.       *)
(*                                                                         *)
(* A handler is an operator that maps the request and the current tables   *)
(* to the tuple the Python function returns plus the new tables; an        *)
(* endpoint operator runs the decorators of that handler (jwt_required,    *)
(* the two stacked marshal_with) around it and yields what the client      *)
(* receives.  The actions apply the endpoint operators.                    *)
(***************************************************************************)
EXTENDS Integers, Sequences, FiniteSets, Bags, TLC

VARIABLES users, tasks, now, pending, lastWrite

vars == <<users, tasks, now, pending, lastWrite>>

---------------------------------------------------------------------------
(* Bounds of the model. *)
MaxUsers == 2      \* rows the user table may hold
MaxTaskId == 2     \* largest task id the task table hands out
MaxTime == 1       \* last instant of the clock
MaxPending == 2    \* register requests in flight at once (SpecConc)

(* JWT_ACCESS_TOKEN_EXPIRES = timedelta(hours=24); the clock counts days. *)
JWT_ACCESS_TOKEN_EXPIRES == 1

Usernames == {"alice", "bob"}
Emails == {"a@x.com", "b@x.com"}
Passwords == {"pw1", "pw2"}
Salts == {"s1", "s2"}
Titles == {"t1"}
Descriptions == {"d1"}

---------------------------------------------------------------------------
(* JSON / Python values.  Every value carries a tag, so that values of     *)
(* different Python types can be told apart without comparing them.        *)
None == [tag |-> "null"]
Absent == [tag |-> "absent"]
Val(v) == [tag |-> "val", v |-> v]
Dict(d) == [tag |-> "dict", d |-> d]
List(s) == [tag |-> "list", items |-> s]

(* Python truthiness of a request value: None, a missing key and the empty *)
(* string are falsy.                                                       *)
Truthy(x) == x.tag = "dict" \/ (x.tag = "val" /\ x.v # "")

(* dict.get(key): None when the key is missing. *)
DictGet(data, key) == IF data.d[key].tag = "absent" THEN None ELSE data.d[key]

(* dict.get(key, default) *)
DictGetDefault(data, key, default) ==
    IF data.d[key].tag = "absent" THEN default ELSE data.d[key]

(* key in dict *)
DictHas(data, key) == data.d[key].tag # "absent"

---------------------------------------------------------------------------
(* flask_restx response models and marshalling. *)
Raw == [kind |-> "raw"]
Nested(m) == [kind |-> "nested", model |-> m]
ListOf(m) == [kind |-> "list", model |-> m]

user_model == [id |-> Raw, username |-> Raw, email |-> Raw, created_at |-> Raw]

auth_response == [message |-> Raw, access_token |-> Raw, user |-> Nested(user_model)]

task_model ==
    [id |-> Raw, title |-> Raw, description |-> Raw, completed |-> Raw,
     created_at |-> Raw, updated_at |-> Raw]

task_response == [message |-> Raw, task |-> Nested(task_model)]

tasks_response == [tasks |-> ListOf(task_model), count |-> Raw]

error_model == [error |-> Raw]

(* flask_restx get_value: the value under key, None when obj is no dict or *)
(* has no such key.                                                        *)
get_value(key, obj) ==
    IF obj.tag = "dict" /\ key \in DOMAIN obj.d THEN obj.d[key] ELSE None

RECURSIVE marshal(_, _)
(* flask_restx marshal(data, fields): the output has exactly the keys of   *)
(* fields; a key the data lacks comes out as None; a Nested field          *)
(* marshals its value (None included) with the nested model; a List field  *)
(* marshals each item and is None when the value is missing.               *)
marshal(data, fields) ==
    Dict([key \in DOMAIN fields |->
        LET f == fields[key]
            value == get_value(key, data)
        IN  IF f.kind = "raw" THEN value
            ELSE IF f.kind = "nested" THEN marshal(value, f.model)
            ELSE IF value.tag = "list"
                 THEN List([i \in DOMAIN value.items |->
                               marshal(value.items[i], f.model)])
                 ELSE None])

(* @api.marshal_with(outer, code=...) stacked on @api.marshal_with(inner,  *)
(* code=...): each wrapper marshals whatever the wrapped function returned *)
(* and keeps its status; the code= argument only feeds the documentation.  *)
marshal_with(outer, inner, resp) ==
    [status |-> resp.status, body |-> marshal(marshal(resp.body, inner), outer)]

---------------------------------------------------------------------------
(* werkzeug.security *)
generate_password_hash(password, salt) ==
    [salt |-> salt, digest |-> <<salt, password>>]

check_password_hash(pwhash, password) ==
    pwhash.digest = <<pwhash.salt, password>>

(* flask_jwt_extended: the token carries the identity and the expiry. *)
create_access_token(identity, iat) ==
    [kind |-> "jwt", sub |-> identity, exp |-> iat + JWT_ACCESS_TOKEN_EXPIRES]

NoToken == [kind |-> "missing", sub |-> 0, exp |-> 0]
BadToken == [kind |-> "malformed", sub |-> 0, exp |-> 0]

(* Authorization headers a client can send: none, one that does not decode *)
(* or verify, or a token the application has issued: register issues one   *)
(* when the user row is created and login one at any later instant.        *)
Credentials ==
    {NoToken, BadToken}
        \cup UNION {{create_access_token(u.id, iat) : iat \in u.created_at..now} :
                       u \in users}

(* verify_jwt_in_request: present, well-formed and signed, not expired. *)
verify_jwt_in_request(token) == token.kind = "jwt" /\ now < token.exp

get_jwt_identity(token) == token.sub

---------------------------------------------------------------------------
(* Tables. *)
SetMax(S) == CHOOSE m \in S : \A x \in S : x <= m

(* SQLite INTEGER PRIMARY KEY without AUTOINCREMENT: one more than the     *)
(* largest id now in the table, 1 for an empty table.                      *)
NextId(rows) == IF rows = {} THEN 1 ELSE SetMax({r.id : r \in rows}) + 1

(* User.query.filter_by(username=...) *)
UserByUsername(username) == {u \in users : u.username = username}

(* User.query.filter_by(email=...) *)
UserByEmail(email) == {u \in users : u.email = email}

(* The user table without its unique constraints. *)
NoUniqueConstraint(user) == FALSE

(* unique=True on User.username and User.email *)
UniqueViolation(user) ==
    \E u \in users : u.username = user.username \/ u.email = user.email

(* The query with the owner filter left out. *)
TaskQueryAnyOwner(task_id, user_id) == {t \in tasks : t.id = task_id}

(* Task.query.filter_by(id=task_id, user_id=user_id) *)
TaskQuery(task_id, user_id) ==
    {t \in tasks : t.id = task_id /\ t.user_id = user_id}

(* Task.query.filter_by(user_id=user_id) *)
TasksOf(user_id) == {t \in tasks : t.user_id = user_id}

(* datetime.isoformat() *)
isoformat(t) == [iso |-> t]

(* Task.to_dict *)
to_dict(task) ==
    Dict([id |-> Val(task.id),
          title |-> Val(task.title),
          description |-> task.description,
          completed |-> Val(task.completed),
          created_at |-> Val(isoformat(task.created_at)),
          updated_at |-> Val(isoformat(task.updated_at))])

(* The user dictionary that register and login return. *)
UserSummary(u) ==
    Dict([id |-> Val(u.id), username |-> Val(u.username), email |-> Val(u.email),
          created_at |-> Val(u.created_at)])

(* What a handler hands back: the returned (body, status), the tables      *)
(* after it, and the identity and task id it acted for (0: none).          *)
Result(status, body, us, ts, user_id, task_id) ==
    [status |-> status, body |-> body, raw |-> body, users |-> us, tasks |-> ts,
     user_id |-> user_id, task_id |-> task_id]

Error(status, text, user_id, task_id) ==
    Result(status, Dict([error |-> Val(text)]), users, tasks, user_id, task_id)

(* The two stacked marshal_with decorators around a handler's result. *)
Marshalled(outer, inner, r) ==
    [r EXCEPT !.body = marshal_with(outer, inner, r).body]

(* @jwt_required(): flask_jwt_extended answers itself when the token does  *)
(* not verify; the handler does not run.  The application sets none of the *)
(* loaders, so the defaults answer: a missing header and an expired token  *)
(* get 401, a token that does not decode or verify gets 422.  (Under       *)
(* app.run(debug=True) and under TESTING the exception propagates from the *)
(* flask_restx Api to these handlers.)                                     *)
jwt_error(token, task_id) ==
    IF token.kind = "missing"
    THEN Result(401, Dict([msg |-> Val("Missing Authorization Header")]),
                users, tasks, 0, task_id)
    ELSE IF token.kind = "malformed"
    THEN Result(422, Dict([msg |-> Val("Not enough segments")]),
                users, tasks, 0, task_id)
    ELSE Result(401, Dict([msg |-> Val("Token has expired")]),
                users, tasks, 0, task_id)

---------------------------------------------------------------------------
(* POST /api/auth/register *)

(* The required-field check, then the two existence checks. *)
RegisterCheck(data) ==
    IF ~Truthy(data) \/ ~Truthy(DictGet(data, "username"))
         \/ ~Truthy(DictGet(data, "email")) \/ ~Truthy(DictGet(data, "password"))
    THEN "required"
    ELSE IF UserByUsername(data.d.username.v) # {} THEN "username"
    ELSE IF UserByEmail(data.d.email.v) # {} THEN "email"
    ELSE "ok"

(* Build the row, commit, issue the token.  A commit that breaks a unique  *)
(* constraint raises IntegrityError, which the handler's except clause     *)
(* turns into a 500 that carries str(e).                                   *)
RegisterCommit(data, salt) ==
    LET user == [id |-> NextId(users),
                 username |-> data.d.username.v,
                 email |-> data.d.email.v,
                 password_hash |-> generate_password_hash(data.d.password.v, salt),
                 created_at |-> now]
    IN  IF UniqueViolation(user)
        THEN Error(500, "IntegrityError: UNIQUE constraint failed", 0, 0)
        ELSE Result(201,
                    Dict([message |-> Val("User created successfully"),
                          access_token |-> Val(create_access_token(user.id, now)),
                          user |-> UserSummary(user)]),
                    users \cup {user}, tasks, user.id, 0)

UserRegistration_post(data, salt) ==
    LET c == RegisterCheck(data)
    IN  IF c = "required"
        THEN Error(400, "Username, email, and password are required", 0, 0)
        ELSE IF c = "username" THEN Error(400, "Username already exists", 0, 0)
        ELSE IF c = "email" THEN Error(400, "Email already exists", 0, 0)
        ELSE RegisterCommit(data, salt)

(* POST /api/auth/login *)
UserLogin_post(data) ==
    IF ~Truthy(data) \/ ~Truthy(DictGet(data, "username"))
         \/ ~Truthy(DictGet(data, "password"))
    THEN Error(400, "Username and password are required", 0, 0)
    ELSE LET found == UserByUsername(data.d.username.v)
         IN  IF found # {}
                  /\ check_password_hash((CHOOSE u \in found : TRUE).password_hash,
                                         data.d.password.v)
             THEN LET user == CHOOSE u \in found : TRUE
                  IN  Result(200,
                             Dict([message |-> Val("Login successful"),
                                   access_token |->
                                       Val(create_access_token(user.id, now)),
                                   user |-> UserSummary(user)]),
                             users, tasks, user.id, 0)
             ELSE Error(401, "Invalid credentials", 0, 0)

---------------------------------------------------------------------------
(* GET /api/tasks *)

(* The orders .order_by(Task.created_at.desc()).all() may return the rows  *)
(* in: newest first, rows of one instant in any order.                     *)
OrderedByCreatedDesc(rows) ==
    {s \in [1..Cardinality(rows) -> rows] :
        /\ \A i, j \in DOMAIN s : i # j => s[i] # s[j]
        /\ \A i, j \in DOMAIN s : i < j => s[i].created_at >= s[j].created_at}

TaskList_get(user_id, order) ==
    Result(200,
           Dict([tasks |-> List([i \in DOMAIN order |-> to_dict(order[i])]),
                 count |-> Val(Len(order))]),
           users, tasks, user_id, 0)

(* POST /api/tasks *)
TaskList_post(user_id, data) ==
    IF ~Truthy(data) \/ ~Truthy(DictGet(data, "title"))
    THEN Error(400, "Title is required", user_id, 0)
    ELSE LET task == [id |-> NextId(tasks),
                      title |-> data.d.title.v,
                      description |-> DictGetDefault(data, "description", Val("")),
                      completed |-> FALSE,
                      created_at |-> now,
                      updated_at |-> now,
                      user_id |-> user_id]
         IN  Result(201,
                    Dict([message |-> Val("Task created successfully"),
                          task |-> to_dict(task)]),
                    users, tasks \cup {task}, user_id, task.id)

(* GET /api/tasks/<task_id> *)
TaskResource_get(user_id, task_id) ==
    LET found == TaskQuery(task_id, user_id)
    IN  IF found = {}
        THEN Error(404, "Task not found", user_id, task_id)
        ELSE LET t == CHOOSE t \in found : TRUE
             IN  Result(200, to_dict(t), users, tasks, user_id, task_id)

(* An update that assigns the description whether or not the request has   *)
(* one.                                                                    *)
TaskResource_put_overwrite(user_id, task_id, data) ==
    LET found == TaskQuery(task_id, user_id)
    IN  IF found = {}
        THEN Error(404, "Task not found", user_id, task_id)
        ELSE IF data.tag # "dict"
        THEN Error(500, "argument of type 'NoneType' is not iterable",
                   user_id, task_id)
        ELSE LET t == CHOOSE t \in found : TRUE
                 title == IF DictHas(data, "title") THEN data.d.title
                          ELSE Val(t.title)
                 description == DictGet(data, "description")
                 completed == IF DictHas(data, "completed") THEN data.d.completed
                              ELSE Val(t.completed)
             IN  IF title.tag = "null" \/ completed.tag = "null"
                 THEN Error(500, "IntegrityError: NOT NULL constraint failed",
                            user_id, task_id)
                 ELSE LET task == [t EXCEPT !.title = title.v,
                                            !.description = description,
                                            !.completed = completed.v,
                                            !.updated_at = now]
                      IN  Result(200,
                                 Dict([message |-> Val("Task updated successfully"),
                                       task |-> to_dict(task)]),
                                 users, (tasks \ {t}) \cup {task}, user_id, task_id)

(* An update whose failed commit leaves the assignments made before it in  *)
(* the row.                                                                *)
TaskResource_put_partial(user_id, task_id, data) ==
    LET found == TaskQuery(task_id, user_id)
    IN  IF found = {}
        THEN Error(404, "Task not found", user_id, task_id)
        ELSE IF data.tag # "dict"
        THEN Error(500, "argument of type 'NoneType' is not iterable",
                   user_id, task_id)
        ELSE LET t == CHOOSE t \in found : TRUE
                 title == IF DictHas(data, "title") THEN data.d.title
                          ELSE Val(t.title)
                 description == IF DictHas(data, "description")
                                THEN data.d.description ELSE t.description
                 completed == IF DictHas(data, "completed") THEN data.d.completed
                              ELSE Val(t.completed)
             IN  IF title.tag = "null"
                 THEN Error(500, "IntegrityError: NOT NULL constraint failed",
                            user_id, task_id)
                 ELSE IF completed.tag = "null"
                 THEN Result(500,
                             Dict([error |->
                                 Val("IntegrityError: NOT NULL constraint failed")]),
                             users,
                             (tasks \ {t}) \cup {[t EXCEPT !.title = title.v,
                                                           !.description = description,
                                                           !.updated_at = now]},
                             user_id, task_id)
                 ELSE LET task == [t EXCEPT !.title = title.v,
                                            !.description = description,
                                            !.completed = completed.v,
                                            !.updated_at = now]
                      IN  Result(200,
                                 Dict([message |-> Val("Task updated successfully"),
                                       task |-> to_dict(task)]),
                                 users, (tasks \ {t}) \cup {task}, user_id, task_id)

(* PUT /api/tasks/<task_id> *)
TaskResource_put(user_id, task_id, data) ==
    LET found == TaskQuery(task_id, user_id)
    IN  IF found = {}
        THEN Error(404, "Task not found", user_id, task_id)
        ELSE IF data.tag # "dict"
        THEN Error(500, "argument of type 'NoneType' is not iterable",
                   user_id, task_id)
        ELSE LET t == CHOOSE t \in found : TRUE
                 title == IF DictHas(data, "title") THEN data.d.title
                          ELSE Val(t.title)
                 description == IF DictHas(data, "description")
                                THEN data.d.description ELSE t.description
                 completed == IF DictHas(data, "completed") THEN data.d.completed
                              ELSE Val(t.completed)
             IN  IF title.tag = "null" \/ completed.tag = "null"
                 THEN Error(500, "IntegrityError: NOT NULL constraint failed",
                            user_id, task_id)
                 ELSE LET task == [t EXCEPT !.title = title.v,
                                            !.description = description,
                                            !.completed = completed.v,
                                            !.updated_at = now]
                      IN  Result(200,
                                 Dict([message |-> Val("Task updated successfully"),
                                       task |-> to_dict(task)]),
                                 users, (tasks \ {t}) \cup {task}, user_id, task_id)

(* A delete that tells a task of another owner from a missing one. *)
TaskResource_delete_forbidden(user_id, task_id) ==
    LET found == TaskQuery(task_id, user_id)
    IN  IF found = {}
        THEN IF \E t \in tasks : t.id = task_id
             THEN Error(403, "Task not found", user_id, task_id)
             ELSE Error(404, "Task not found", user_id, task_id)
        ELSE Result(200, Dict([message |-> Val("Task deleted successfully")]),
                    users, tasks \ found, user_id, task_id)

(* A delete that removes every task of the caller. *)
TaskResource_delete_all(user_id, task_id) ==
    LET found == TaskQuery(task_id, user_id)
    IN  IF found = {}
        THEN Error(404, "Task not found", user_id, task_id)
        ELSE Result(200, Dict([message |-> Val("Task deleted successfully")]),
                    users, tasks \ TasksOf(user_id), user_id, task_id)

(* DELETE /api/tasks/<task_id> *)
TaskResource_delete(user_id, task_id) ==
    LET found == TaskQuery(task_id, user_id)
    IN  IF found = {}
        THEN Error(404, "Task not found", user_id, task_id)
        ELSE Result(200, Dict([message |-> Val("Task deleted successfully")]),
                    users, tasks \ found, user_id, task_id)

(* GET / *)
home == Result(200, Dict([message |-> Val("Task Manager API")]), users, tasks, 0, 0)

---------------------------------------------------------------------------
(* The endpoints as the client sees them: the handlers under their         *)
(* decorators.                                                             *)
POST_register(data, salt) ==
    Marshalled(auth_response, error_model, UserRegistration_post(data, salt))

POST_login(data) ==
    Marshalled(auth_response, error_model, UserLogin_post(data))

GET_tasks(token, order) ==
    IF verify_jwt_in_request(token)
    THEN Marshalled(tasks_response, error_model,
                    TaskList_get(get_jwt_identity(token), order))
    ELSE jwt_error(token, 0)

POST_tasks(token, data) ==
    IF verify_jwt_in_request(token)
    THEN Marshalled(task_response, error_model,
                    TaskList_post(get_jwt_identity(token), data))
    ELSE jwt_error(token, 0)

GET_task(token, task_id) ==
    IF verify_jwt_in_request(token)
    THEN Marshalled(task_model, error_model,
                    TaskResource_get(get_jwt_identity(token), task_id))
    ELSE jwt_error(token, task_id)

PUT_task(token, task_id, data) ==
    IF verify_jwt_in_request(token)
    THEN Marshalled(task_response, error_model,
                    TaskResource_put(get_jwt_identity(token), task_id, data))
    ELSE jwt_error(token, task_id)

DELETE_task(token, task_id) ==
    IF verify_jwt_in_request(token)
    THEN Marshalled(error_model, error_model,
                    TaskResource_delete(get_jwt_identity(token), task_id))
    ELSE jwt_error(token, task_id)

---------------------------------------------------------------------------
(* Requests. *)
FieldVals(S) == {Absent, Val("")} \cup {Val(s) : s \in S}

RegisterBodies ==
    {None} \cup {Dict(d) : d \in [username : FieldVals(Usernames),
                                  email : FieldVals(Emails),
                                  password : FieldVals(Passwords)]}

(* The two accounts the task scenarios run with, and a request without a   *)
(* body.                                                                   *)
KnownRegisterBodies ==
    {None,
     Dict([username |-> Val("alice"), email |-> Val("a@x.com"), password |-> Val("pw1")]),
     Dict([username |-> Val("bob"), email |-> Val("b@x.com"), password |-> Val("pw2")])}

LoginBodies ==
    {None} \cup {Dict(d) : d \in [username : FieldVals(Usernames),
                                  password : FieldVals(Passwords)]}

CreateBodies ==
    {None} \cup {Dict(d) : d \in [title : FieldVals(Titles),
                                  description : {Absent}
                                                  \cup {Val(s) : s \in Descriptions},
                                  completed : {Absent, Val(TRUE)}]}

(* PUT bodies: no body, the empty object, each field alone with each of    *)
(* its values, all three fields together, and a title together with a      *)
(* null completed flag.                                                    *)
UpdateBody(title, description, completed) ==
    Dict([title |-> title, description |-> description, completed |-> completed])

UpdateBodies ==
    {None, UpdateBody(Absent, Absent, Absent)}
        \cup {UpdateBody(t, Absent, Absent) : t \in {None, Val("")} \cup {Val(x) : x \in Titles}}
        \cup {UpdateBody(Absent, Val(s), Absent) : s \in Descriptions}
        \cup {UpdateBody(Absent, Absent, c) : c \in {None, Val(TRUE), Val(FALSE)}}
        \cup {UpdateBody(Val(t), Val(s), Val(TRUE)) : t \in Titles, s \in Descriptions}
        \cup {UpdateBody(Val(t), Absent, None) : t \in Titles}

(* Task ids a URL may name: those the table can hold and one beyond. *)
TaskIds == 1..(MaxTaskId + 1)

(* The record of a request that changed a table: the operation, the status *)
(* the client got, the identity it ran for and the task id it named or     *)
(* made.                                                                   *)
Served(op, r) ==
    [op |-> op, status |-> r.status, user_id |-> r.user_id, task_id |-> r.task_id]

---------------------------------------------------------------------------
Init ==
    /\ users = {}
    /\ tasks = {}
    /\ now = 0
    /\ pending = EmptyBag
    /\ lastWrite = [op |-> "none", status |-> 0, user_id |-> 0, task_id |-> 0]

(* datetime.utcnow() moves on between requests. *)
Tick ==
    /\ now < MaxTime
    /\ now' = now + 1
    /\ UNCHANGED <<users, tasks, pending, lastWrite>>

(* The effect of a served request on the tables. *)
Apply(op, r) ==
    /\ users' = r.users
    /\ tasks' = r.tasks
    /\ lastWrite' = IF r.users = users /\ r.tasks = tasks THEN lastWrite
                    ELSE Served(op, r)
    /\ UNCHANGED <<now, pending>>

RegisterFrom(bodies, salts) ==
    \E data \in bodies, salt \in salts :
        LET r == POST_register(data, salt)
        IN  Cardinality(r.users) <= MaxUsers /\ Apply("register", r)

Register == RegisterFrom(KnownRegisterBodies, {"s1"})

Login == \E data \in LoginBodies : Apply("login", POST_login(data))

ListTasks ==
    \E token \in Credentials :
        \E order \in OrderedByCreatedDesc(TasksOf(get_jwt_identity(token))) :
            Apply("list", GET_tasks(token, order))

CreateTask ==
    \E token \in Credentials, data \in CreateBodies :
        LET r == POST_tasks(token, data)
        IN  (\A t \in r.tasks : t.id <= MaxTaskId) /\ Apply("create", r)

GetTask ==
    \E token \in Credentials, task_id \in TaskIds :
        Apply("get", GET_task(token, task_id))

UpdateTask ==
    \E token \in Credentials, task_id \in TaskIds, data \in UpdateBodies :
        Apply("update", PUT_task(token, task_id, data))

DeleteTask ==
    \E token \in Credentials, task_id \in TaskIds :
        Apply("delete", DELETE_task(token, task_id))

Home == Apply("home", home)

Next ==
    \/ Tick
    \/ Register
    \/ Login
    \/ ListTasks
    \/ CreateTask
    \/ GetTask
    \/ UpdateTask
    \/ DeleteTask
    \/ Home

Spec == Init /\ [][Next]_vars

(* The authentication routes with every register body, the register       *)
(* requests served side by side (app.run serves each request on its own    *)
(* thread): a request runs its checks, other requests run, then it         *)
(* commits.  A request that commits right after its checks is the          *)
(* sequential case.                                                        *)
RegisterBegin ==
    \E data \in RegisterBodies :
        /\ BagCardinality(pending) < MaxPending
        /\ pending' = IF RegisterCheck(data) = "ok"
                      THEN pending (+) SetToBag({data})
                      ELSE pending
        /\ UNCHANGED <<users, tasks, now, lastWrite>>

RegisterFinish ==
    \E data \in BagToSet(pending), salt \in Salts :
        LET r == Marshalled(auth_response, error_model, RegisterCommit(data, salt))
        IN  /\ Cardinality(r.users) <= MaxUsers
            /\ users' = r.users
            /\ lastWrite' = IF r.users = users THEN lastWrite
                            ELSE Served("register", r)
            /\ pending' = pending (-) SetToBag({data})
            /\ UNCHANGED <<tasks, now>>

NextConc == Tick \/ RegisterBegin \/ RegisterFinish \/ Login

SpecConc == Init /\ [][NextConc]_vars

---------------------------------------------------------------------------
(* What the client receives. *)
Reply(r) == [status |-> r.status, body |-> r.body]

(* The tokens of a user that verify now. *)
ValidTokens == {token \in Credentials : verify_jwt_in_request(token)}

(* A handler result left both tables as they were. *)
NoWrite(r) == r.users = users /\ r.tasks = tasks

(* A response body, or the task object nested in it, carries no task field. *)
NoTaskData(body) ==
    /\ \A key \in DOMAIN task_model : get_value(key, body) = None
    /\ \A key \in DOMAIN task_model : get_value(key, get_value("task", body)) = None

(* The pairs of a verified token and a task that another user owns. *)
Foreign ==
    {p \in ValidTokens \X tasks : p[2].user_id # get_jwt_identity(p[1])}

(* Task ids no row has. *)
FreeIds == {id \in TaskIds : \A t \in tasks : t.id # id}

---------------------------------------------------------------------------
(* C1: with a token of user A, get, update and delete on the id of a task  *)
(* that user B owns answer 404, carry none of the task's data and leave    *)
(* every row as it was.                                                    *)
C1_CrossUserNotFound ==
    \A p \in Foreign :
        LET token == p[1]
            t == p[2]
            g == GET_task(token, t.id)
            d == DELETE_task(token, t.id)
        IN  /\ g.status = 404 /\ NoTaskData(g.body) /\ NoWrite(g)
            /\ d.status = 404 /\ NoTaskData(d.body) /\ NoWrite(d)
            /\ \A data \in UpdateBodies :
                   LET u == PUT_task(token, t.id, data)
                   IN  u.status = 404 /\ NoTaskData(u.body) /\ NoWrite(u)

(* Both users hold a task after an update, and each has a token that       *)
(* verifies: every cross-user request is there to be refused.              *)
C1_Witness ==
    /\ lastWrite.op = "update"
    /\ \E p, q \in Foreign :
           /\ p[2].user_id # q[2].user_id
           /\ GET_task(p[1], p[2].id).status = 404
           /\ GET_task(q[1], q[2].id).status = 404

(* C2: for get, update and delete the reply (status and body) for the id   *)
(* of another user's task is the reply for an id that no task has.         *)
C2_ForeignAsMissing ==
    \A p \in Foreign, free \in FreeIds :
        LET token == p[1]
            t == p[2]
        IN  /\ Reply(GET_task(token, t.id)) = Reply(GET_task(token, free))
            /\ Reply(DELETE_task(token, t.id)) = Reply(DELETE_task(token, free))
            /\ \A data \in UpdateBodies :
                   Reply(PUT_task(token, t.id, data))
                       = Reply(PUT_task(token, free, data))

(* A foreign task and a free id side by side, right after a delete. *)
C2_Witness ==
    /\ lastWrite.op = "delete"
    /\ \E p \in Foreign, free \in FreeIds :
           /\ free < p[2].id
           /\ Reply(GET_task(p[1], free)).status = 404

(* C3: no two rows of the user table share a username, and no two share an *)
(* email, whatever register requests were served and however they          *)
(* interleaved.                                                            *)
C3_UsersUnique ==
    \A u, v \in users :
        u # v => u.id # v.id /\ u.username # v.username /\ u.email # v.email

(* Two rows are stored and a request that passed its checks before they    *)
(* were committed is still to commit a duplicate.                          *)
C3_Witness ==
    /\ Cardinality(users) = 2
    /\ \E data \in BagToSet(pending) :
           /\ UserByUsername(data.d.username.v) # {}
           /\ \A salt \in Salts : RegisterCommit(data, salt).status = 500

(* A register body whose three fields are all non-empty. *)
CompleteRegisterBodies ==
    {data \in RegisterBodies \ {None} :
        Truthy(data.d.username) /\ Truthy(data.d.email) /\ Truthy(data.d.password)}

(* C4: a register request that names a stored username is answered 400     *)
(* with the error 'Username already exists', whatever email and password   *)
(* it carries, and stores nothing.                                         *)
C4_DuplicateUsername ==
    \A data \in CompleteRegisterBodies, salt \in Salts :
        UserByUsername(data.d.username.v) # {} =>
            LET r == POST_register(data, salt)
            IN  /\ r.status = 400
                /\ get_value("error", r.body) = Val("Username already exists")
                /\ NoWrite(r)

(* The login body of a user and a password. *)
LoginBody(username, password) ==
    Dict([username |-> Val(username), password |-> Val(password)])

(* C5: login with a stored user's name and the password the user           *)
(* registered with is answered 200 with an access token whose identity is  *)
(* that user's id.                                                         *)
C5_LoginIssuesToken ==
    \A u \in users, password \in Passwords :
        check_password_hash(u.password_hash, password) =>
            LET r == POST_login(LoginBody(u.username, password))
                access_token == get_value("access_token", r.body)
            IN  /\ r.status = 200
                /\ access_token.tag = "val"
                /\ access_token.v = create_access_token(u.id, now)

(* C6: login with an unknown username and login with a known username and  *)
(* a wrong password get the same reply, 401 with the error 'Invalid        *)
(* credentials'; no token is made and no row changes.                      *)
C6_LoginFailuresAlike ==
    \A username \in Usernames, password \in Passwords :
        LET found == UserByUsername(username)
            r == POST_login(LoginBody(username, password))
        IN  (found = {} \/ \A u \in found :
                              ~check_password_hash(u.password_hash, password)) =>
                /\ r.status = 401
                /\ get_value("error", r.body) = Val("Invalid credentials")
                /\ get_value("access_token", r.raw) = None
                /\ NoWrite(r)

(* C7: every task route answers a request whose token does not verify with *)
(* 401 and touches no row.                                                 *)
C7_TokenRequired ==
    \A token \in Credentials \ ValidTokens :
        /\ \A order \in OrderedByCreatedDesc(TasksOf(get_jwt_identity(token))) :
               LET r == GET_tasks(token, order) IN r.status = 401 /\ NoWrite(r)
        /\ \A data \in CreateBodies :
               LET r == POST_tasks(token, data) IN r.status = 401 /\ NoWrite(r)
        /\ \A task_id \in TaskIds :
               /\ LET r == GET_task(token, task_id) IN r.status = 401 /\ NoWrite(r)
               /\ LET r == DELETE_task(token, task_id)
                  IN  r.status = 401 /\ NoWrite(r)
               /\ \A data \in UpdateBodies :
                      LET r == PUT_task(token, task_id, data)
                      IN  r.status = 401 /\ NoWrite(r)

(* C8: a successful create followed at once by get of the new id with the  *)
(* same token returns the title and description that were sent (the empty  *)
(* string for no description) and completed false.                         *)
C8_CreateThenGet ==
    [][\A token \in ValidTokens, data \in CreateBodies \ {None} :
        \A new_id \in {POST_tasks(token, data).task_id} :
            (/\ POST_tasks(token, data).status = 201
             /\ tasks' = POST_tasks(token, data).tasks
             /\ users' = users /\ now' = now) =>
                (LET g == GET_task(token, new_id)
                 IN  /\ g.status = 200
                     /\ get_value("title", g.body) = data.d.title
                     /\ get_value("description", g.body)
                            = DictGetDefault(data, "description", Val(""))
                     /\ get_value("completed", g.body) = Val(FALSE))']_vars

(* C9: a successful update sets exactly the fields the request carries and *)
(* the updated timestamp; the fields it does not carry, the id, the owner, *)
(* the creation timestamp and every other row keep their values, and the   *)
(* updated timestamp becomes the current time, never less than before.     *)
C9_UpdateFrame ==
    \A token \in ValidTokens, data \in UpdateBodies :
        \A t \in TasksOf(get_jwt_identity(token)) :
            LET r == PUT_task(token, t.id, data)
            IN  r.status = 200 =>
                    \E t2 \in r.tasks :
                        /\ r.tasks = (tasks \ {t}) \cup {t2}
                        /\ r.users = users
                        /\ t2.id = t.id
                        /\ t2.user_id = t.user_id
                        /\ t2.created_at = t.created_at
                        /\ t2.title = IF DictHas(data, "title")
                                      THEN data.d.title.v ELSE t.title
                        /\ t2.description = IF DictHas(data, "description")
                                            THEN data.d.description
                                            ELSE t.description
                        /\ t2.completed = IF DictHas(data, "completed")
                                          THEN data.d.completed.v ELSE t.completed
                        /\ t2.updated_at >= t.updated_at
                        /\ t2.updated_at = now

(* An update was the last write: the task it named is completed, was       *)
(* updated after it was created and still has its title and description.   *)
C9_Witness ==
    /\ lastWrite.op = "update" /\ lastWrite.status = 200
    /\ \E t \in tasks :
           /\ t.id = lastWrite.task_id
           /\ t.updated_at > t.created_at
           /\ t.completed
           /\ t.title \in Titles
           /\ t.description = Val("")

(* The replies the owner of a deleted task gets for its id: 404 for get,   *)
(* update and delete, and a list without it.                               *)
Gone(user_id, task_id) ==
    \A token \in ValidTokens :
        get_jwt_identity(token) = user_id =>
            /\ GET_task(token, task_id).status = 404
            /\ DELETE_task(token, task_id).status = 404
            /\ \A data \in UpdateBodies : PUT_task(token, task_id, data).status = 404
            /\ \A order \in OrderedByCreatedDesc(TasksOf(user_id)) :
                   LET listed == GET_tasks(token, order).raw.d.tasks.items
                   IN  \A i \in DOMAIN listed : listed[i].d.id # Val(task_id)

(* C10 as stated: once a task is deleted, its id stays not found for the   *)
(* caller, whatever is served next.                                        *)
C10_DeletedForever ==
    [][lastWrite.op = "delete" =>
          \A user_id \in {lastWrite.user_id}, task_id \in {lastWrite.task_id} :
              Gone(user_id, task_id)']_vars

(* C10 amended: a successful delete removes the named row of the caller    *)
(* and no other row; from then on its id is gone for the caller (404 for   *)
(* get, update and delete, absent from the list) until the next write; and *)
(* an id that is not found for a caller is found again only when a create  *)
(* of that caller is assigned it.                                          *)
C10_DeleteRemoves ==
    [][vars' # vars =>
        /\ (lastWrite'.op = "delete" /\ tasks' # tasks) =>
               \E t \in tasks :
                   /\ t.id = lastWrite'.task_id
                   /\ t.user_id = lastWrite'.user_id
                   /\ tasks' = tasks \ {t}
        /\ (lastWrite.op = "delete" => Gone(lastWrite.user_id, lastWrite.task_id))'
        /\ \A user_id \in 1..MaxUsers, task_id \in TaskIds :
               (TaskQuery(task_id, user_id) = {} /\ TaskQuery(task_id, user_id)' # {}) =>
                   /\ lastWrite'.op = "create"
                   /\ lastWrite'.user_id = user_id
                   /\ lastWrite'.task_id = task_id]_vars

(* A delete was the last write, the caller still has another task and the  *)
(* deleted id is gone for the caller.                                      *)
C10_Witness ==
    /\ lastWrite.op = "delete" /\ lastWrite.status = 200
    /\ TasksOf(lastWrite.user_id) # {}
    /\ \E token \in ValidTokens :
           /\ get_jwt_identity(token) = lastWrite.user_id
           /\ GET_task(token, lastWrite.task_id).status = 404

(* C11: list answers 200 with exactly the caller's tasks, newest first,    *)
(* and with count the number of tasks returned; a caller without tasks     *)
(* gets the empty list and count 0.                                        *)
C11_ListOwnTasks ==
    \A token \in ValidTokens :
        \A order \in OrderedByCreatedDesc(TasksOf(get_jwt_identity(token))) :
            LET r == GET_tasks(token, order)
                listed == get_value("tasks", r.body)
            IN  /\ r.status = 200
                /\ listed.tag = "list"
                /\ {listed.items[i] : i \in DOMAIN listed.items}
                       = {to_dict(t) : t \in TasksOf(get_jwt_identity(token))}
                /\ Len(listed.items) = Cardinality(TasksOf(get_jwt_identity(token)))
                /\ \A i, j \in DOMAIN listed.items :
                       i < j => listed.items[i].d.created_at.v.iso
                                    >= listed.items[j].d.created_at.v.iso
                /\ get_value("count", r.body) = Val(Len(listed.items))

(* Create bodies without a usable title: no body, no title key, or the     *)
(* empty title.                                                            *)
UntitledCreateBodies ==
    {data \in CreateBodies : ~Truthy(data) \/ ~Truthy(DictGet(data, "title"))}

(* C12: a create with a verified token and no body, no title or an empty   *)
(* title is answered 400 with the error 'Title is required' and stores no  *)
(* task.                                                                   *)
C12_TitleRequired ==
    \A token \in ValidTokens, data \in UntitledCreateBodies :
        LET r == POST_tasks(token, data)
        IN  /\ r.status = 400
            /\ get_value("error", r.body) = Val("Title is required")
            /\ NoWrite(r)

(* C13: every stored task has a non-empty title. *)
C13_TitleNonEmpty == \A t \in tasks : t.title # ""

(* The message of the application's own 500 handler (internal_error). *)
GenericInternalError == Val("Internal server error")

(* A register request whose checks passed, at its commit. *)
CommitReply(data, salt) ==
    Marshalled(auth_response, error_model, RegisterCommit(data, salt))

(* C14: a request that ends in an internal failure is answered 500 with    *)
(* the fixed generic message, and the handler hands back no exception      *)
(* text: here for update, with every body, of every task id.               *)
C14_GenericInternalError ==
    \A token \in ValidTokens, task_id \in TaskIds, data \in UpdateBodies :
        LET r == PUT_task(token, task_id, data)
        IN  r.status = 500 =>
                /\ get_value("error", r.body) = GenericInternalError
                /\ get_value("error", r.raw) = GenericInternalError

(* C15: register requests served side by side behave as if each ran its    *)
(* checks and its insert in one step: a request whose checks passed        *)
(* commits with 201, or is refused with 400 when a request with the same   *)
(* username or email committed in between, and is never answered 500.      *)
C15_RegisterAtomic ==
    \A data \in BagToSet(pending), salt \in Salts :
        LET r == CommitReply(data, salt)
        IN  /\ r.status \in {201, 400}
            /\ r.status = 201 <=>
                   (UserByUsername(data.d.username.v) = {}
                        /\ UserByEmail(data.d.email.v) = {})

(* C16: a register request with a field missing or empty is answered 400;  *)
(* with all three fields, a stored username is answered 400 'Username      *)
(* already exists' whether or not the email is stored too, and a stored    *)
(* email alone 400 'Email already exists'; in each case no row is stored   *)
(* and no token is made.                                                   *)
C16_RegisterCheckOrder ==
    \A data \in RegisterBodies, salt \in Salts :
        LET r == POST_register(data, salt)
            refused == /\ r.status = 400
                       /\ NoWrite(r)
                       /\ get_value("access_token", r.raw) = None
        IN  IF data \notin CompleteRegisterBodies
            THEN refused
            ELSE IF UserByUsername(data.d.username.v) # {}
            THEN refused
                 /\ get_value("error", r.body) = Val("Username already exists")
            ELSE UserByEmail(data.d.email.v) # {} =>
                     refused
                     /\ get_value("error", r.body) = Val("Email already exists")

(* C17: a request that is answered with an error status, and every login,  *)
(* list and get, leaves the user table and the task table as they were; an *)
(* update that fails after it found the task leaves none of its            *)
(* assignments in the row.                                                 *)
C17_FailuresKeepStores ==
    /\ \A data \in RegisterBodies, salt \in Salts :
           LET r == POST_register(data, salt) IN r.status >= 400 => NoWrite(r)
    /\ \A data \in LoginBodies : NoWrite(POST_login(data))
    /\ \A token \in Credentials :
           /\ \A order \in OrderedByCreatedDesc(TasksOf(get_jwt_identity(token))) :
                  NoWrite(GET_tasks(token, order))
           /\ \A data \in CreateBodies :
                  LET r == POST_tasks(token, data) IN r.status >= 400 => NoWrite(r)
           /\ \A task_id \in TaskIds :
                  /\ NoWrite(GET_task(token, task_id))
                  /\ LET r == DELETE_task(token, task_id)
                     IN  r.status >= 400 => NoWrite(r)
                  /\ \A data \in UpdateBodies :
                         LET r == PUT_task(token, task_id, data)
                         IN  r.status >= 400 => NoWrite(r)

(* The owner of a task whose title an earlier update emptied sends an      *)
(* update with no body and one with a new title and a null completed flag: *)
(* both find the task and fail.                                            *)
C17_Witness ==
    /\ lastWrite.op = "update"
    /\ \E token \in ValidTokens, t \in tasks, title \in Titles :
           /\ t.user_id = get_jwt_identity(token)
           /\ t.title # title
           /\ PUT_task(token, t.id, None).status = 500
           /\ PUT_task(token, t.id, UpdateBody(Val(title), Absent, None)).status = 500

====
